---- MODULE Spec2Model ----
(***************************************************************************)
(* Model of the camera capture / QR decode pipeline of main.py:            *)
(* AndroidWidgetHolder, AndroidCamera and ZbarQrcodeDetector, together     *)
(* with the platform objects they drive (android.hardware.Camera, the      *)
(* SurfaceView attached to the activity, the zbar ImageScanner).           *)
(*                                                                         *)
(* Threads.  AndroidCamera.start and AndroidCamera.stop are decorated with *)
(* run_on_ui_thread: a call posts the body to the UI thread and returns;   *)
(* the UI thread runs the posted bodies one at a time, in order.  The      *)
(* surface callback is run by the UI thread as well.  The preview frame    *)
(* callback is run by the frame delivery thread; main.py takes no lock, so *)
(* its steps interleave with whatever the UI thread and the application    *)
(* thread do.                                                              *)
(***************************************************************************)
EXTENDS Integers, Sequences, FiniteSets

\* ---------------------------------------------------------------- bounds
\* Longest list of symbols the decoder finds in one frame.
MaxSyms == 1
\* Most start/stop bodies posted to the UI thread and not yet run.
MaxPending == 2
\* Most callback buffers the device queue holds when a surface change is
\* still accepted by the model.
MaxBufs == 4

\* ------------------------------------------------------- program values
None == <<>>
SurfaceViewObj == <<"SurfaceView">>
\* Another android View an application can give the holder.
OtherViewObj == <<"View">>
\* The values the ObjectProperty view accepts (allownone=True).
HolderViews == {None, SurfaceViewObj, OtherViewObj}
CameraObj(i) == <<"Camera", i>>

\* NumericProperty index: the camera ids an application can select.
Indices == {0, 1}
\* Pixel sizes of the display surface.
Widths == {1, 2}
Heights == {1}
\* android.graphics.ImageFormat.NV21, the preview format of a camera whose
\* parameters never set another one, and its bits per pixel.
NV21 == "NV21"
getBitsPerPixel(fmt) == IF fmt = NV21 THEN 12 ELSE 16

\* net.sourceforge.zbar.Symbol types.
QRCODE == "QRCODE"
EAN13 == "EAN13"
Symbologies == {QRCODE, EAN13}
\* Symbol.NONE, which setConfig takes to mean every symbology.
AllSymbologies == "NONE"

\* What a frame shows: the symbols printed in it, in the decoder's order.
Payloads == {"A", "B"}
NativeSymbol(t, d) ==
    [type |-> t, data |-> d, quality |-> 1, count |-> 0, bounds |-> <<0, 0, 1, 1>>]
NativeSymbols ==
    {NativeSymbol(QRCODE, d) : d \in Payloads} \cup {NativeSymbol(EAN13, "A")}
SeqsUpTo(S, n) == UNION {[1..k -> S] : k \in 0..n}
Frames == SeqsUpTo(NativeSymbols, MaxSyms)

VARIABLES
    \* AndroidCamera
    index,              \* the index property
    _android_camera,    \* None or the Camera object
    \* AndroidWidgetHolder
    view,               \* AndroidWidgetHolder.view, the ObjectProperty
    _old_view,          \* None or the native view the holder attached
    contentViews,       \* the views the holder has in the activity, in order
    \* ZbarQrcodeDetector
    symbols,            \* the published ListProperty
    _scanner,           \* the ImageScanner configuration
    \* android.hardware.Camera (platform)
    held,               \* camera ids opened and not released
    configured,         \* focus mode, rotation, orientation applied
    previewFormat,      \* the device's preview format
    previewSize,        \* None or <<width, height>> set by setPreviewSize
    previewCallback,    \* a PreviewCallback is registered (with buffers)
    previewing,         \* startPreview has been called
    callbackBuffers,    \* the device's queue of callback buffers (byte lengths)
    \* display
    surfaceSize,        \* <<width, height>> of the surface the display gives
    \* UI thread
    uiQueue,            \* posted bodies, oldest first
    uiPc,               \* "idle", or "start_attach" inside AndroidCamera.start
    \* frame delivery thread
    pc,                 \* "idle", "dispatch", "iterate", "resubmit"
    cbData,             \* the buffer handed to the callback (byte length)
    cbFrame,            \* what the frame in the buffer shows
    cbSymbols,          \* the local list symbols of _detect_qrcode_frame
    cbCameraReleased,   \* the Camera object given to the callback was released
    \* both threads
    lastEvent           \* how the handler that ran last ended

cameraVars == <<held, configured, previewFormat, previewSize, previewCallback,
                previewing, callbackBuffers>>
holderVars == <<view, _old_view, contentViews>>
cbVars == <<pc, cbData, cbFrame, cbSymbols, cbCameraReleased>>
vars == <<index, _android_camera, holderVars, symbols, _scanner, cameraVars,
          surfaceSize, uiQueue, uiPc, cbVars, lastEvent>>

\* ----------------------------------------------------------- ImageScanner
\* ImageScanner.setConfig(symbology, Config.ENABLE, value): symbology 0
\* addresses every symbology.
setConfigEnable(sc, sym, val) ==
    [sc EXCEPT !.enabled =
        IF sym = AllSymbologies THEN (IF val = 1 THEN Symbologies ELSE {})
        ELSE (IF val = 1 THEN @ \cup {sym} ELSE @ \ {sym})]
setConfigXDensity(sc, val) == [sc EXCEPT !.xDensity = val]
setConfigYDensity(sc, val) == [sc EXCEPT !.yDensity = val]
\* A new ImageScanner: every symbology enabled, density 1.
ImageScanner == [enabled |-> Symbologies, xDensity |-> 1, yDensity |-> 1]
\* The scanner part with the two ENABLE calls in the other order.
DetectorScanner_enable_then_disable ==
    setConfigYDensity(
        setConfigXDensity(
            setConfigEnable(setConfigEnable(ImageScanner, QRCODE, 1), AllSymbologies, 0),
            3), 3)
\* ZbarQrcodeDetector.__init__, the scanner part.
DetectorScanner ==
    setConfigYDensity(
        setConfigXDensity(
            setConfigEnable(setConfigEnable(ImageScanner, AllSymbologies, 0), QRCODE, 1),
            3), 3)

\* The symbols the scanner recognises in a frame, in the decoder's order.
RECURSIVE getSymbols(_, _)
getSymbols(sc, frame) ==
    IF frame = <<>> THEN <<>>
    ELSE IF Head(frame).type \in sc.enabled
         THEN <<Head(frame)>> \o getSymbols(sc, Tail(frame))
         ELSE getSymbols(sc, Tail(frame))
\* ImageScanner.scanImage: the number of symbols found.
scanImage(sc, frame) == Len(getSymbols(sc, frame))
\* ZbarQrcodeDetector.Qrcode built from one decoder symbol.
Qrcode(s) ==
    [type |-> s.type, data |-> s.data, bounds |-> s.bounds,
     quality |-> s.quality, count |-> s.count]

\* ------------------------------------------------------------ session state
\* The session states of the specification, read off the program's state.
SessionState ==
    IF _android_camera = None THEN "Closed"
    ELSE IF previewing THEN "Streaming"
    ELSE IF _old_view # None THEN "AwaitingSurface"
    ELSE "Opening"
\* Buffers the frame handler holds.
delivered == IF pc = "idle" THEN 0 ELSE 1
inFlight == Len(callbackBuffers)
bufferCount == 2

Init ==
    /\ index = 0
    /\ _android_camera = None
    /\ view = None
    /\ _old_view = None
    /\ contentViews = <<>>
    /\ symbols = <<>>
    /\ _scanner = DetectorScanner
    /\ held = {}
    /\ configured = FALSE
    /\ previewFormat = NV21
    /\ previewSize = None
    /\ previewCallback = FALSE
    /\ previewing = FALSE
    /\ callbackBuffers = <<>>
    /\ surfaceSize \in Widths \X Heights
    /\ uiQueue = <<>>
    /\ uiPc = "idle"
    /\ pc = "idle"
    /\ cbData = 0
    /\ cbFrame = <<>>
    /\ cbSymbols = <<>>
    /\ cbCameraReleased = FALSE
    /\ lastEvent = "none"

\* ------------------------------------------------------ AndroidWidgetHolder
\* ViewGroup.removeView(child): the layout without that child.
RECURSIVE removeView(_, _)
removeView(children, child) ==
    IF children = <<>> THEN <<>>
    ELSE IF Head(children) = child THEN Tail(children)
    ELSE <<Head(children)>> \o removeView(Tail(children), child)

\* on_view that attaches the new view without removing the old one.
on_view_keeps_old(value) ==
    IF value = None
    THEN /\ _old_view' = None
         /\ UNCHANGED contentViews
    ELSE /\ _old_view' = value
         /\ contentViews' = Append(contentViews, value)

\* on_view, run when the view property changes value.
on_view(value) ==
    LET removed == IF _old_view # None
                   THEN removeView(contentViews, _old_view)
                   ELSE contentViews
    IN IF value = None
       THEN /\ _old_view' = None
            /\ contentViews' = removed
       ELSE /\ _old_view' = value
            /\ contentViews' = Append(removed, value)
\* Assignment to the ObjectProperty view: observers run only on a change.
set_view(value) ==
    IF value = view
    THEN UNCHANGED holderVars
    ELSE /\ view' = value
         /\ on_view(value)

\* ------------------------------------------------- application thread calls
\* ZbarQrcodeDetector.start: posts AndroidCamera.start to the UI thread.
DetectorStart ==
    /\ Len(uiQueue) < MaxPending
    /\ uiQueue' = Append(uiQueue, "start")
    /\ UNCHANGED <<surfaceSize, index, _android_camera, holderVars, symbols, _scanner,
                   cameraVars, uiPc, cbVars, lastEvent>>

\* ZbarQrcodeDetector.stop: clears symbols, posts AndroidCamera.stop.
DetectorStop ==
    /\ Len(uiQueue) < MaxPending
    /\ symbols' = <<>>
    /\ uiQueue' = Append(uiQueue, "stop")
    /\ UNCHANGED <<surfaceSize, index, _android_camera, holderVars, _scanner,
                   cameraVars, uiPc, cbVars, lastEvent>>

\* An assignment to index that switches the open session to the new device.
SetIndex_switches_device(i) ==
    /\ i # index
    /\ index' = i
    /\ IF _android_camera = None
       THEN UNCHANGED <<_android_camera, held>>
       ELSE /\ _android_camera' = CameraObj(i)
            /\ held' = (held \ {_android_camera[2]}) \cup {i}
    /\ UNCHANGED <<surfaceSize, holderVars, symbols, _scanner, configured, previewFormat,
                   previewSize, previewCallback, previewing, callbackBuffers,
                   uiQueue, uiPc, cbVars, lastEvent>>

\* Assignment to AndroidCamera.index.
SetIndex(i) ==
    /\ i # index
    /\ index' = i
    /\ UNCHANGED <<surfaceSize, _android_camera, holderVars, symbols, _scanner,
                   cameraVars, uiQueue, uiPc, cbVars, lastEvent>>

\* ------------------------------------------------------------ AndroidCamera
\* How the platform answers the calls start makes.
StartOutcomes == {"ok", "open_raises", "setParameters_raises"}
\* Byte length of the buffer _on_surface_changed allocates:
\* int(width * height * (bitsPerPixel / 8.)).
BufferLength(width, height, fmt) == (width * height * getBitsPerPixel(fmt)) \div 8

\* start without its guard on _android_camera: every call opens a device.
start_open_unguarded(outcome) ==
    IF outcome = "open_raises" \/ index \in held
    THEN /\ outcome = "open_raises"
         /\ lastEvent' = "start_open_raised"
         /\ uiPc' = "idle"
         /\ UNCHANGED <<_android_camera, cameraVars>>
    ELSE /\ _android_camera' = CameraObj(index)
         /\ held' = held \cup {index}
         /\ previewFormat' = NV21
         /\ previewSize' = None
         /\ previewCallback' = FALSE
         /\ previewing' = FALSE
         /\ callbackBuffers' = <<>>
         /\ IF outcome = "setParameters_raises"
            THEN /\ configured' = FALSE
                 /\ lastEvent' = "start_config_raised"
                 /\ uiPc' = "idle"
            ELSE /\ configured' = TRUE
                 /\ uiPc' = "start_attach"
                 /\ UNCHANGED lastEvent

\* AndroidCamera.start as run by the UI thread, up to setDisplayOrientation:
\* the guard, Camera.open and the configuration of the device.
start_open(outcome) ==
    IF _android_camera # None
    THEN /\ outcome = "ok"
         /\ lastEvent' = "start_noop"
         /\ uiPc' = "idle"
         /\ UNCHANGED <<_android_camera, cameraVars>>
    ELSE IF outcome = "open_raises" \/ index \in held
    THEN \* Camera.open raises: nothing was assigned
         /\ outcome = "open_raises"
         /\ lastEvent' = "start_open_raised"
         /\ uiPc' = "idle"
         /\ UNCHANGED <<_android_camera, cameraVars>>
    ELSE /\ _android_camera' = CameraObj(index)
         /\ held' = held \cup {index}
         /\ previewFormat' = NV21
         /\ previewSize' = None
         /\ previewCallback' = FALSE
         /\ previewing' = FALSE
         /\ callbackBuffers' = <<>>
         /\ IF outcome = "setParameters_raises"
            THEN /\ configured' = FALSE
                 /\ lastEvent' = "start_config_raised"
                 /\ uiPc' = "idle"
            ELSE /\ configured' = TRUE
                 /\ uiPc' = "start_attach"
                 /\ UNCHANGED lastEvent

\* AndroidCamera.start, the rest: the SurfaceView and its callback are
\* created and the view is given to the holder.
start_attach ==
    /\ set_view(SurfaceViewObj)
    /\ lastEvent' = "start_ok"

\* stop that forgets the handle without calling release().
stop_without_release ==
    IF _android_camera = None
    THEN /\ lastEvent' = "stop_noop"
         /\ UNCHANGED <<_android_camera, holderVars, cameraVars, cbCameraReleased>>
    ELSE /\ previewCallback' = FALSE
         /\ UNCHANGED <<held, configured, previewFormat, previewSize, previewing,
                        callbackBuffers, cbCameraReleased>>
         /\ _android_camera' = None
         /\ set_view(None)
         /\ lastEvent' = "stop_ok"

\* AndroidCamera.stop, as run by the UI thread.  The body is one step: a
\* frame callback that reads _android_camera between release() and the
\* assignment of None calls addCallbackBuffer on a released camera, which
\* queues nothing, as does the AttributeError it gets after the assignment.
stop ==
    IF _android_camera = None
    THEN /\ lastEvent' = "stop_noop"
         /\ UNCHANGED <<_android_camera, holderVars, cameraVars, cbCameraReleased>>
    ELSE /\ previewCallback' = FALSE
         /\ held' = held \ {_android_camera[2]}
         /\ configured' = FALSE
         /\ previewFormat' = NV21
         /\ previewSize' = None
         /\ previewing' = FALSE
         /\ callbackBuffers' = <<>>
         /\ cbCameraReleased' = (cbCameraReleased \/ pc # "idle")
         /\ _android_camera' = None
         /\ set_view(None)
         /\ lastEvent' = "stop_ok"

\* AndroidCamera._on_surface_changed(fmt, width, height); fmt is not read.
_on_surface_changed(width, height, outcome) ==
    IF _android_camera = None \/ outcome = "setParameters_raises"
    THEN /\ lastEvent' = "surface_raised"
         /\ UNCHANGED cameraVars
    ELSE LET buf == BufferLength(width, height, previewFormat)
         IN /\ previewSize' = <<height, width>>
            /\ callbackBuffers' = Append(Append(callbackBuffers, buf), buf)
            /\ previewCallback' = TRUE
            /\ previewing' = TRUE
            /\ lastEvent' = "surface_ok"
            /\ UNCHANGED <<held, configured, previewFormat>>

\* ------------------------------------------------------------------ UI thread
UIStart ==
    /\ uiPc = "idle"
    /\ uiQueue # <<>>
    /\ Head(uiQueue) = "start"
    /\ uiQueue' = Tail(uiQueue)
    /\ \E outcome \in StartOutcomes : start_open(outcome)
    /\ UNCHANGED <<surfaceSize, index, holderVars, symbols, _scanner, cbVars>>

UIStartAttach ==
    /\ uiPc = "start_attach"
    /\ uiPc' = "idle"
    /\ start_attach
    /\ UNCHANGED <<surfaceSize, index, _android_camera, symbols, _scanner,
                   cameraVars, uiQueue, cbVars>>

UIStop ==
    /\ uiPc = "idle"
    /\ uiQueue # <<>>
    /\ Head(uiQueue) = "stop"
    /\ uiQueue' = Tail(uiQueue)
    /\ stop
    /\ UNCHANGED <<surfaceSize, index, symbols, _scanner, uiPc, pc, cbData, cbFrame,
                   cbSymbols>>

\* SurfaceHolderCallback.surfaceChanged: the surface of the attached view
\* reports its format and size.
surfaceChanged ==
    /\ uiPc = "idle"
    /\ _old_view = SurfaceViewObj
    /\ \E outcome \in {"ok", "setParameters_raises"} :
            /\ outcome = "ok" => Len(callbackBuffers) + 2 <= MaxBufs
            /\ _on_surface_changed(surfaceSize[1], surfaceSize[2], outcome)
    /\ UNCHANGED <<surfaceSize, index, _android_camera, holderVars, symbols, _scanner,
                   uiQueue, uiPc, cbVars>>

\* ------------------------------------------------------ frame delivery thread
\* The device fills the oldest callback buffer and calls
\* PreviewCallback.onPreviewFrame(data, camera).
onPreviewFrame ==
    /\ pc = "idle"
    /\ previewCallback
    /\ previewing
    /\ callbackBuffers # <<>>
    /\ pc' = "dispatch"
    /\ cbData' = Head(callbackBuffers)
    /\ callbackBuffers' = Tail(callbackBuffers)
    /\ \E frame \in Frames : cbFrame' = frame
    /\ cbCameraReleased' = FALSE
    /\ UNCHANGED <<surfaceSize, index, _android_camera, holderVars, symbols, _scanner, held,
                   configured, previewFormat, previewSize, previewCallback,
                   previewing, uiQueue, uiPc, cbSymbols, lastEvent>>

\* _detect_qrcode_frame that binds the published list to the local list
\* before the loop fills it (self.symbols = symbols = []).
_detect_qrcode_frame_publishes_first(outcome) ==
    IF cbCameraReleased \/ outcome = "raises"
    THEN /\ outcome = "raises"
         /\ UNCHANGED <<symbols, cbSymbols>>
         /\ pc' = "idle"
    ELSE LET result == scanImage(_scanner, cbFrame)
         IN IF result = 0
            THEN /\ UNCHANGED <<symbols, cbSymbols>>
                 /\ pc' = "resubmit"
            ELSE /\ symbols' = <<>>
                 /\ cbSymbols' = <<>>
                 /\ pc' = "iterate"

\* ZbarQrcodeDetector._detect_qrcode_frame(instance, camera, data), up to
\* the creation of the local list.  It raises when the camera it is given
\* was released (getParameters) or when the conversion or the scan raises,
\* and the exception leaves _on_preview_frame (pc "idle"); it returns at once
\* when the scan found nothing (pc "resubmit").
_detect_qrcode_frame(outcome) ==
    IF cbCameraReleased \/ outcome = "raises"
    THEN /\ outcome = "raises"
         /\ UNCHANGED <<symbols, cbSymbols>>
         /\ pc' = "idle"
    ELSE LET result == scanImage(_scanner, cbFrame)
         IN IF result = 0
            THEN /\ UNCHANGED <<symbols, cbSymbols>>
                 /\ pc' = "resubmit"
            ELSE /\ cbSymbols' = <<>>
                 /\ pc' = "iterate"
                 /\ UNCHANGED symbols

\* The loop that extends the published list instead of replacing it.
_detect_qrcode_frame_loop_extends ==
    LET found == getSymbols(_scanner, cbFrame)
    IN IF Len(cbSymbols) < Len(found)
       THEN /\ cbSymbols' = Append(cbSymbols, Qrcode(found[Len(cbSymbols) + 1]))
            /\ pc' = "iterate"
            /\ UNCHANGED symbols
       ELSE /\ symbols' = symbols \o cbSymbols
            /\ cbSymbols' = <<>>
            /\ pc' = "resubmit"

\* _detect_qrcode_frame, the loop over barcode.getSymbols() and the
\* assignment self.symbols = symbols that follows it: one step for each
\* it.next() and one for the assignment.
_detect_qrcode_frame_loop ==
    LET found == getSymbols(_scanner, cbFrame)
    IN IF Len(cbSymbols) < Len(found)
       THEN /\ cbSymbols' = Append(cbSymbols, Qrcode(found[Len(cbSymbols) + 1]))
            /\ pc' = "iterate"
            /\ UNCHANGED symbols
       ELSE /\ symbols' = cbSymbols
            /\ cbSymbols' = <<>>
            /\ pc' = "resubmit"

\* AndroidCamera._on_preview_frame, first statement: dispatch of
\* on_preview_frame to the bound handler, up to the handler's loop.
_on_preview_frame_dispatch ==
    /\ pc = "dispatch"
    /\ \E outcome \in {"ok", "raises"} : _detect_qrcode_frame(outcome)
    /\ IF pc' = "idle"
       THEN /\ lastEvent' = "frame_raised"
            /\ cbData' = 0
            /\ cbFrame' = <<>>
       ELSE UNCHANGED <<lastEvent, cbData, cbFrame>>
    /\ UNCHANGED <<surfaceSize, index, _android_camera, holderVars, _scanner, cameraVars,
                   uiQueue, uiPc, cbCameraReleased>>

\* The handler's loop and publication, still inside the dispatch.
_on_preview_frame_iterate ==
    /\ pc = "iterate"
    /\ _detect_qrcode_frame_loop
    /\ UNCHANGED <<surfaceSize, index, _android_camera, holderVars, _scanner, cameraVars,
                   uiQueue, uiPc, cbData, cbFrame, cbCameraReleased, lastEvent>>

\* AndroidCamera._on_preview_frame, second statement:
\* self._android_camera.addCallbackBuffer(data).
_on_preview_frame_resubmit ==
    /\ pc = "resubmit"
    /\ pc' = "idle"
    /\ cbData' = 0
    /\ cbFrame' = <<>>
    /\ IF _android_camera = None
       THEN /\ lastEvent' = "frame_raised"
            /\ UNCHANGED callbackBuffers
       ELSE /\ callbackBuffers' = Append(callbackBuffers, cbData)
            /\ lastEvent' = "frame_returned"
    /\ UNCHANGED <<surfaceSize, index, _android_camera, holderVars, symbols, _scanner, held,
                   configured, previewFormat, previewSize, previewCallback,
                   previewing, uiQueue, uiPc, cbSymbols, cbCameraReleased>>

Next ==
    \/ DetectorStart
    \/ DetectorStop
    \/ \E i \in Indices : SetIndex(i)
    \/ UIStart
    \/ UIStartAttach
    \/ UIStop
    \/ surfaceChanged
    \/ onPreviewFrame
    \/ _on_preview_frame_dispatch
    \/ _on_preview_frame_iterate
    \/ _on_preview_frame_resubmit

Spec == Init /\ [][Next]_vars

\* Any assignment to the holder's view property, by whoever holds the
\* widget.
AssignView ==
    /\ \E value \in HolderViews :
         /\ value # view
         /\ set_view(value)
         /\ lastEvent' = IF value = None THEN "view_cleared"
                         ELSE IF view = None THEN "view_attached"
                         ELSE "view_replaced"
    /\ UNCHANGED <<surfaceSize, index, _android_camera, symbols, _scanner, cameraVars,
                   uiQueue, uiPc, cbVars>>

\* The holder driven both by AndroidCamera (start, stop, the surface
\* callback that follows an attachment) and directly.  The frame callback
\* neither reads nor writes the holder and is left out.
NextHolder ==
    \/ DetectorStart
    \/ DetectorStop
    \/ \E i \in Indices : SetIndex(i)
    \/ UIStart
    \/ UIStartAttach
    \/ UIStop
    \/ surfaceChanged
    \/ AssignView

SpecHolder == Init /\ [][NextHolder]_vars

\* ===================================================================== claims
\* The list a decode pass on frame extracts: one Qrcode for each symbol of an
\* enabled symbology, in the decoder's order.
PassResult(frame) ==
    LET found == SelectSeq(frame, LAMBDA s : s.type \in _scanner.enabled)
    IN [i \in 1..Len(found) |-> Qrcode(found[i])]
\* A step in which _detect_qrcode_frame returns (a completed decode pass).
DecodePassCompletes == pc \in {"dispatch", "iterate"} /\ pc' = "resubmit"
\* A step in which the frame callback ends, by return or by exception.
FrameCallbackEnds == pc # "idle" /\ pc' = "idle"

\* C1 (as stated): every completed decode pass replaces the published
\* symbol list with that pass's result, the empty list included.
C1_PublishedIsPassResult ==
    [][DecodePassCompletes => symbols' = PassResult(cbFrame)]_vars

\* C1 (amended): a completed decode pass that finds at least one symbol
\* replaces the published list with that pass's result; a pass on which the
\* decoder reports zero symbols leaves the published list as it was.
C1_PublishedReplacedWhenFound ==
    [][DecodePassCompletes =>
         symbols' = IF PassResult(cbFrame) = <<>> THEN symbols
                    ELSE PassResult(cbFrame)]_vars

\* C1 witness: a pass that found nothing has completed and the list published
\* by an earlier frame is still there.
C1_StaleListAfterEmptyPass ==
    /\ pc = "resubmit"
    /\ PassResult(cbFrame) = <<>>
    /\ symbols # <<>>

\* C2 (as stated): while the session is Streaming, buffers in flight plus
\* buffers delivered equal bufferCount.
C2_BufferPoolInvariant ==
    SessionState = "Streaming" => inFlight + delivered = bufferCount

\* C3 (as stated): a surface-change notification that arrives while the
\* session is Streaming submits no buffer, registers no frame handler and
\* changes nothing of the device.
C3_GateFiresOnce ==
    [][(SessionState = "Streaming" /\ surfaceChanged) => UNCHANGED cameraVars]_vars

\* C4 (as stated): AndroidCamera.stop completes only when no frame callback is
\* executing, and no frame callback starts on a stopped camera.
C4_CloseWaitsForCallback ==
    [][/\ (UIStop /\ _android_camera # None) => pc = "idle"
       /\ onPreviewFrame => _android_camera # None]_vars

\* C5 (as stated): every delivered frame is resubmitted exactly once, after
\* the frame handler has finished with it: each frame callback ends with the
\* step that puts the delivered buffer back in the device queue.
C5_ResubmitOncePerFrame ==
    [][FrameCallbackEnds =>
         (pc = "resubmit" /\ callbackBuffers' = Append(callbackBuffers, cbData))]_vars

\* What a session consists of: the camera handle, the attached surface view
\* and the state of the device.
sessionVars == <<_android_camera, holderVars, cameraVars>>

\* C6: AndroidCamera.start run on a session that is already Opening,
\* AwaitingSurface or Streaming changes nothing of the session; at no time
\* is more than one device held or more than one surface view attached.
C6_StartOnOpenSessionIsNoOp ==
    /\ [](Cardinality(held) <= 1 /\ Len(contentViews) <= 1)
    /\ [][(UIStart /\ SessionState # "Closed") =>
            (UNCHANGED sessionVars /\ uiPc' = "idle")]_vars

\* C6 witness: a start body has just run on a Streaming session.
C6_StartRanWhileStreaming ==
    lastEvent = "start_noop" /\ SessionState = "Streaming"

\* C7: AndroidCamera.stop leaves the session Closed, with no frame callback
\* registered, the device released, no buffer queued and no view attached;
\* it does not raise; run on a Closed session it changes nothing.
C7_CloseIdempotentComplete ==
    [][UIStop =>
         /\ SessionState' = "Closed"
         /\ ~previewCallback' /\ ~previewing'
         /\ held' = {}
         /\ callbackBuffers' = <<>>
         /\ _old_view' = None /\ contentViews' = <<>>
         /\ lastEvent' \in {"stop_ok", "stop_noop"}
         /\ SessionState = "Closed" => UNCHANGED sessionVars]_vars

\* C7 witness: a stop body has run on a session that an earlier stop closed
\* while a frame callback was executing.
C7_SecondCloseRan ==
    /\ lastEvent = "stop_noop"
    /\ SessionState = "Closed"
    /\ cbCameraReleased

\* C8 (as stated): the session state moves only along Closed -> Opening ->
\* AwaitingSurface -> Streaming, and from any open state to Closed; buffers
\* are queued, the frame callback is registered and the preview runs only
\* once the surface has reported its size; frames are delivered only while
\* Streaming.
SessionMoves ==
    {<<"Closed", "Opening">>, <<"Opening", "AwaitingSurface">>,
     <<"AwaitingSurface", "Streaming">>, <<"Opening", "Closed">>,
     <<"AwaitingSurface", "Closed">>, <<"Streaming", "Closed">>}
C8_SessionLifecycle ==
    /\ []((callbackBuffers # <<>> \/ previewCallback \/ previewing)
            => previewSize # None)
    /\ [][/\ SessionState' # SessionState =>
               <<SessionState, SessionState'>> \in SessionMoves
          /\ onPreviewFrame => SessionState = "Streaming"]_vars

\* C9 (as stated): when the handling of a delivered frame raises while the
\* session is Streaming, the buffer is still resubmitted and the session
\* stays Streaming with the same number of buffers.
C9_FrameFailureKeepsBuffer ==
    [][(pc = "dispatch" /\ pc' = "idle" /\ ~cbCameraReleased) =>
         /\ callbackBuffers' = Append(callbackBuffers, cbData)
         /\ SessionState' = SessionState]_vars

\* C10 (as stated): a start in which Camera.open or setParameters raised
\* leaves the session Closed with no device held.
C10_FailedOpenEndsClosed ==
    lastEvent \in {"start_open_raised", "start_config_raised"} =>
        (SessionState = "Closed" /\ held = {})

\* C11: the published list changes only by one whole assignment: either the
\* detector's stop clears it, or the decode pass assigns the complete list it
\* has built for the frame.  While the pass is building its list the
\* published value stays what it was, so no reader sees a prefix.
PublishStep == pc = "iterate" /\ pc' = "resubmit"

C11_PublicationIsAtomic ==
    [][symbols' # symbols =>
          \/ /\ PublishStep
             /\ symbols' = PassResult(cbFrame)
          \/ /\ symbols' = <<>>
             /\ uiQueue' = Append(uiQueue, "stop")]_vars

\* C11 witness: the pass is in the middle of the frame, its own list already
\* holds a symbol, and the published list is still the previous one.
C11_MidPassOldListVisible ==
    /\ pc = "iterate"
    /\ cbSymbols # <<>>
    /\ symbols # <<>>
    /\ symbols # cbSymbols

\* C12: the session is never Closed while a buffer is still delivered, that
\* is, while a frame callback holds a buffer it has not given back.
C12_NoDeliveredBufferWhenClosed == SessionState = "Closed" => delivered = 0

\* C13: the decoder is configured once, at construction, by disabling every
\* symbology, enabling QR code and setting both scan densities to 3; no
\* step changes the configuration afterwards, so whatever frames have been
\* scanned the enabled set is exactly {QRCODE} and only QR symbols are
\* published.
C13_DecoderConfiguredOnce ==
    /\ [](/\ _scanner = [enabled |-> {QRCODE}, xDensity |-> 3, yDensity |-> 3]
          /\ \A i \in 1..Len(symbols) : symbols[i].type = QRCODE)
    /\ [][_scanner' = _scanner]_vars

\* C13 witness: a frame that shows a symbol of another symbology has been
\* scanned.
C13_ScannedForeignSymbology ==
    /\ pc = "resubmit"
    /\ \E i \in 1..Len(cbFrame) : cbFrame[i].type # QRCODE

\* C14: every callback buffer queued for the session has the byte length
\* width * height * bitsPerPixel / 8 rounded up, for the width and height
\* the surface reported and the preview format in force.
FrameBytes(width, height, fmt) == (width * height * getBitsPerPixel(fmt) + 7) \div 8

C14_BufferHoldsWholeFrame ==
    \A i \in 1..Len(callbackBuffers) :
        callbackBuffers[i] = FrameBytes(surfaceSize[1], surfaceSize[2], previewFormat)

\* C15: an assignment to index changes nothing of the session (open device,
\* applied configuration, surface view); while a device stays open it stays
\* the same device with the same applied configuration; and a device that
\* is opened is the one index names at that start.
C15_IndexTakesEffectOnNextStart ==
    [][/\ index' # index => UNCHANGED sessionVars
       /\ (_android_camera # None /\ _android_camera' # None) =>
              (_android_camera' = _android_camera /\ configured' = configured)
       /\ (_android_camera = None /\ _android_camera' # None) =>
              _android_camera' = CameraObj(index)]_vars

\* C15 witness: the session streams from one device while index names
\* another.
C15_IndexChangedWhileStreaming ==
    /\ SessionState = "Streaming"
    /\ configured
    /\ _android_camera # CameraObj(index)

\* C16: whenever _on_surface_changed or _on_preview_frame dereferences
\* _android_camera (getParameters, addCallbackBuffer) the handle is not
\* None, whatever stop has done in between.
C16_HandleNonNullAtDereference ==
    [][(surfaceChanged \/ _on_preview_frame_resubmit) => _android_camera # None]_vars

\* C17: after the detector's stop the published list is empty and stays
\* empty until start is next called.  While the newest request posted by the
\* detector is a stop the UI thread has not yet run, no start has been called
\* since that stop.
StopIsNewestCall == uiQueue # <<>> /\ uiQueue[Len(uiQueue)] = "stop"

C17_EmptyAfterStop == StopIsNewestCall => symbols = <<>>

\* C18: whatever is assigned to the holder's view property, by start and
\* stop or directly, the holder has at most one native view attached, it is
\* the value the property holds (the one most recently assigned), nothing is
\* attached while the property is None, and the property changes only by an
\* assignment that leaves exactly the assigned view attached.
Attached(value) == IF value = None THEN <<>> ELSE <<value>>

C18_OnlyNewestViewAttached ==
    /\ [](/\ Len(contentViews) <= 1
          /\ contentViews = Attached(view)
          /\ _old_view = view)
    /\ [][view' # view => (UIStartAttach \/ UIStop \/ AssignView)]_vars

\* C18 witness: the surface view of an open session was replaced by
\* another view, with no None in between.
C18_ViewReplacedByView ==
    /\ lastEvent = "view_replaced"
    /\ _android_camera # None
    /\ view = OtherViewObj
    /\ contentViews = <<OtherViewObj>>

====
